---- MODULE Spec2Model ----
(***************************************************************************)
(* Model of the anyrun "applications" plugin                               *)
(* (plugins/applications/src/lib.rs): init builds the entry catalog,       *)
(* get_matches ranks it against a query, handler launches the selection.   *)
(*                                                                         *)
(* Strings are sequences of one-character strings.  Option<T> is a set     *)
(* with at most one element: {} is None and {x} is Some(x).                *)
(***************************************************************************)
EXTENDS Integers, Sequences, FiniteSets, TLC

(* ----------------------------- bounds ---------------------------------- *)
NumSources == 2      \* entry-source locations scanned, in priority order
MaxFiles == 2        \* descriptor files on disk, all locations together
MaxEntriesCfg == 2   \* largest max_entries a configuration file sets

(* --------------------------- option helpers ---------------------------- *)
None == {}
Some(x) == {x}
Unwrap(o) == CHOOSE x \in o : TRUE
UnwrapOr(o, d) == IF o = {} THEN d ELSE Unwrap(o)

(* ------------------------------ strings -------------------------------- *)
UpperChars == {"A", "B"}
ToLower(c) == CASE c = "A" -> "a" [] c = "B" -> "b" [] OTHER -> c

StartsWith(s, p) == Len(p) <= Len(s) /\ SubSeq(s, 1, Len(p)) = p

Max(S) == CHOOSE x \in S : \A y \in S : y <= x

(* -------------------- fuzzy matcher (smart case) ----------------------- *)
\* smart_case(): the match is case sensitive iff the pattern has an
\* uppercase character.
CaseSensitive(pattern) == \E i \in 1..Len(pattern) : pattern[i] \in UpperChars

CharMatches(c, p, sensitive) ==
    IF sensitive THEN c = p ELSE ToLower(c) = ToLower(p)

\* The ways the pattern embeds in the choice as a subsequence.
Embeddings(choice, pattern) ==
    { f \in [1..Len(pattern) -> 1..Len(choice)] :
        /\ \A i \in 1..Len(pattern) :
              CharMatches(choice[f[i]], pattern[i], CaseSensitive(pattern))
        /\ \A i \in 1..(Len(pattern) - 1) : f[i] < f[i + 1] }

\* Quality of one embedding: one point per matched character, one for a
\* match that starts at the head of the choice, one per contiguous pair.
EmbeddingScore(f, n) ==
    n + (IF f[1] = 1 THEN 1 ELSE 0)
      + Cardinality({ i \in 1..(n - 1) : f[i + 1] = f[i] + 1 })

\* fuzzy_match(choice, pattern): None when the pattern is not a subsequence
\* of the choice, else Some(score) with score >= 0; the empty pattern
\* matches everything with score 0.
fuzzy_match(choice, pattern) ==
    IF pattern = << >> THEN Some(0)
    ELSE IF Embeddings(choice, pattern) = {} THEN None
    ELSE Some(Max({ EmbeddingScore(f, Len(pattern)) :
                      f \in Embeddings(choice, pattern) }))

(* ------------------------- configuration ------------------------------- *)
\* impl Default for Config
DefaultMaxEntries == 5
ConfigDefault ==
    [desktop_actions |-> FALSE, max_entries |-> DefaultMaxEntries,
     terminal |-> None, ignore_prefix |-> << >>]

\* The configurations an applications.ron file may hold.
ConfigFiles ==
    [desktop_actions : {FALSE}, max_entries : 0..MaxEntriesCfg,
     terminal : {None, Some("xterm")}, ignore_prefix : {<< >>, <<"a">>}]

\* What init finds at <config_dir>/applications.ron.
ConfigReads ==
    {[status |-> "unreadable", content |-> ConfigDefault],
     [status |-> "malformed", content |-> ConfigDefault]}
    \cup {[status |-> "ok", content |-> c] : c \in ConfigFiles}

\* init, lines 92-101: a read or parse failure falls back to the default.
LoadConfig(read) == IF read.status = "ok" THEN read.content ELSE ConfigDefault

(* --------------------------- descriptor files -------------------------- *)
\* The contents of descriptor file k, before a source offset is attached.
Descriptor(k) ==
    CASE k = 1 -> [name |-> <<"a", "b">>, desc |-> None, exec |-> <<"b", "a">>,
                   icon |-> "i1", keywords |-> << <<"b">> >>,
                   term |-> FALSE, path |-> Some("/w")]
      [] k = 2 -> [name |-> <<"A", "c">>, desc |-> None, exec |-> <<"c", "a">>,
                   icon |-> "i2", keywords |-> << <<"c", "b">> >>,
                   term |-> TRUE, path |-> None]
      [] OTHER -> [name |-> <<"b", "a">>, desc |-> Some(<<"a">>),
                   exec |-> <<"a">>,
                   icon |-> "i3", keywords |-> << >>,
                   term |-> FALSE, path |-> None]

\* The descriptor files that may be found in a location.
Pool == {1, 2, 3}

\* One source location: its descriptor files in the order the scan reads them.
Locations ==
    { s \in UNION { [1..n -> Pool] : n \in 0..MaxFiles } :
        \A i, j \in 1..Len(s) : i # j => s[i] # s[j] }

(* ----------------------- catalog construction -------------------------- *)
\* A DesktopEntry: the descriptor plus the offset of its source location.
WithOffset(d, off) ==
    [name |-> d.name, desc |-> d.desc, exec |-> d.exec, icon |-> d.icon,
     keywords |-> d.keywords, term |-> d.term, path |-> d.path,
     offset |-> off]

\* The deduplication identity of an entry.
Identity(e) == <<e.name, e.exec>>

RECURSIVE Candidates(_, _)
\* All candidate entries of locations i.. in scan order; location i (1-based)
\* gives its entries offset i - 1.
Candidates(locs, i) ==
    IF i > Len(locs) THEN << >>
    ELSE [j \in 1..Len(locs[i]) |-> WithOffset(Descriptor(locs[i][j]), i - 1)]
         \o Candidates(locs, i + 1)

RECURSIVE DedupLastWins(_, _)
DedupLastWins(cands, kept) ==
    IF cands = << >> THEN kept
    ELSE LET c == Head(cands)
             hit == { i \in 1..Len(kept) : Identity(kept[i]) = Identity(c) }
         IN DedupLastWins(Tail(cands),
               IF hit = {} THEN Append(kept, c)
               ELSE [i \in 1..Len(kept) |-> IF i \in hit THEN c ELSE kept[i]])

RECURSIVE Dedup(_, _)
\* First-seen wins: a candidate whose identity is already kept is dropped.
Dedup(cands, kept) ==
    IF cands = << >> THEN kept
    ELSE LET c == Head(cands)
         IN Dedup(Tail(cands),
               IF \E i \in 1..Len(kept) : Identity(kept[i]) = Identity(c)
               THEN kept ELSE Append(kept, c))

\* Ids are an incrementing counter from 0 in acceptance order.
Number(es) == [i \in 1..Len(es) |-> [entry |-> es[i], id |-> i - 1]]

\* scrubber::scrubber: Ok(catalog), or Err when the scan fails as a whole.
scrubber(disk) ==
    IF disk.ok THEN Some(Number(Dedup(Candidates(disk.locations, 1), << >>)))
    ELSE None

(* ------------------------------ ranking -------------------------------- *)
Queries == {<< >>, <<"a">>, <<"b">>, <<"A">>, <<"a", "b">>}

RECURSIVE KeywordScore(_, _)
\* lines 129-133: sum of the keyword matches, 0 for a keyword without match.
KeywordScore(keywords, input) ==
    IF keywords = << >> THEN 0
    ELSE UnwrapOr(fuzzy_match(Head(keywords), input), 0)
         + KeywordScore(Tail(keywords), input)

ScoreWrongWeight(entry, input) ==
    LET name_score == UnwrapOr(fuzzy_match(entry.name, input), 0)
        comment_score == IF entry.desc = None THEN 0
                         ELSE UnwrapOr(fuzzy_match(Unwrap(entry.desc), input), 0)
        exec_score == UnwrapOr(fuzzy_match(entry.exec, input), 0)
        keyword_score == KeywordScore(entry.keywords, input)
    IN (name_score * 150 + comment_score * 25 + 50 * exec_score + keyword_score)
       - entry.offset

\* lines 122-135: the aggregate score of one entry.
Score(entry, input) ==
    LET name_score == UnwrapOr(fuzzy_match(entry.name, input), 0)
        comment_score == IF entry.desc = None THEN 0
                         ELSE UnwrapOr(fuzzy_match(Unwrap(entry.desc), input), 0)
        exec_score == UnwrapOr(fuzzy_match(entry.exec, input), 0)
        keyword_score == KeywordScore(entry.keywords, input)
    IN (name_score * 150 + comment_score * 50 + 25 * exec_score + keyword_score)
       - entry.offset

KeepNonNegative(score) == score >= 0

\* line 137: the inclusion test of filter_map.
Keep(score) == score > 0

RECURSIVE FilterMap(_, _)
\* lines 118-143: (entry, id, score) of the entries that pass, catalog order.
FilterMap(entries, input) ==
    IF entries = << >> THEN << >>
    ELSE LET e == Head(entries)
             score == Score(e.entry, input)
             rest == FilterMap(Tail(entries), input)
         IN IF Keep(score)
            THEN <<[entry |-> e.entry, id |-> e.id, score |-> score]>> \o rest
            ELSE rest

InsertBeforeTies(sorted, x) ==
    LET before == { i \in 1..Len(sorted) : sorted[i].score > x.score }
        k == Cardinality(before)
    IN SubSeq(sorted, 1, k) \o <<x>> \o SubSeq(sorted, k + 1, Len(sorted))

\* Insert x behind every element whose score is at least x's.
Insert(sorted, x) ==
    LET before == { i \in 1..Len(sorted) : sorted[i].score >= x.score }
        k == Cardinality(before)
    IN SubSeq(sorted, 1, k) \o <<x>> \o SubSeq(sorted, k + 1, Len(sorted))

RECURSIVE SortFrom(_, _)
SortFrom(todo, sorted) ==
    IF todo = << >> THEN sorted
    ELSE SortFrom(Tail(todo), Insert(sorted, Head(todo)))

\* line 145: sort_by(|a, b| b.2.cmp(&a.2)), a stable sort, descending score.
SortByScoreDesc(scored) == SortFrom(scored, << >>)

TruncateOffByOne(s, n) == IF Len(s) > n + 1 THEN SubSeq(s, 1, n + 1) ELSE s

\* line 147: Vec::truncate.
Truncate(s, n) == IF Len(s) > n THEN SubSeq(s, 1, n) ELSE s

\* lines 149-157: the Match handed to the host.
ToMatch(r) ==
    [title |-> r.entry.name, description |-> r.entry.desc,
     icon |-> Some(r.entry.icon), id |-> Some(r.id)]

IgnoredAlways(cfg, input) == StartsWith(input, cfg.ignore_prefix)

\* line 113: the ignore-prefix short-circuit.
Ignored(cfg, input) ==
    cfg.ignore_prefix # << >> /\ StartsWith(input, cfg.ignore_prefix)

\* get_matches as a function of the query and the plugin state.
GetMatches(input, cfg, entries) ==
    IF Ignored(cfg, input) THEN << >>
    ELSE LET top == Truncate(SortByScoreDesc(FilterMap(entries, input)),
                             cfg.max_entries)
         IN [i \in 1..Len(top) |-> ToMatch(top[i])]

(* ------------------------------ dispatch ------------------------------- *)
SENSIBLE_TERMINALS == <<"alacritty", "foot", "kitty", "wezterm", "wterm">>

TerminalSet == { SENSIBLE_TERMINALS[i] : i \in 1..Len(SENSIBLE_TERMINALS) }
Cwd == "/cwd"

FindLast(entries, id) ==
    LET hits == { i \in 1..Len(entries) : entries[i].id # id }
    IN IF hits = {} THEN None ELSE Some(entries[Max(hits)].entry)

\* lines 38-47: find_map, the first catalog entry that carries the id.
FindEntry(entries, id) ==
    LET hits == { i \in 1..Len(entries) : entries[i].id = id }
    IN IF hits = {} THEN None
       ELSE Some(entries[CHOOSE i \in hits : \A j \in hits : i <= j].entry)

\* One Command::spawn(): the program, its arguments, the working directory
\* set with current_dir (None: inherited) and whether the spawn succeeded.
Attempt(program, flag, command, dir, env) ==
    [program |-> program, flag |-> flag, command |-> command, dir |-> dir,
     ok |-> program \in env.spawnable]

RECURSIVE TryAllTerminals(_, _, _)
TryAllTerminals(i, exec, env) ==
    IF i > Len(SENSIBLE_TERMINALS) THEN << >>
    ELSE <<Attempt(SENSIBLE_TERMINALS[i], "-e", exec, None, env)>>
         \o TryAllTerminals(i + 1, exec, env)

RECURSIVE TryTerminals(_, _, _)
\* lines 58-67: the attempts of the fallback loop from terminal i on; the
\* loop breaks after the first spawn that is_ok().
TryTerminals(i, exec, env) ==
    IF i > Len(SENSIBLE_TERMINALS) THEN << >>
    ELSE LET a == Attempt(SENSIBLE_TERMINALS[i], "-e", exec, None, env)
         IN IF a.ok THEN <<a>>
            ELSE <<a>> \o TryTerminals(i + 1, exec, env)

\* lines 76-80: the argument of current_dir().
WorkingDir(entry, env, current_dir) ==
    IF entry.path # None
    THEN IF Unwrap(entry.path) \in env.existing
         THEN Unwrap(entry.path) ELSE current_dir
    ELSE current_dir

\* lines 50-87: what handler does with the entry it found, in environment
\* env: the spawns it makes and how the call ends.
Dispatch(entry, cfg, env) ==
    IF entry.term
    THEN IF cfg.terminal # None
         THEN [spawns |-> <<Attempt(Unwrap(cfg.terminal), "-e", entry.exec,
                                    None, env)>>,
               outcome |-> "Close"]
         ELSE [spawns |-> TryTerminals(1, entry.exec, env),
               outcome |-> "Close"]
    ELSE IF env.cwd = None
         \* env::current_dir().unwrap() on Err
         THEN [spawns |-> << >>, outcome |-> "panic_current_dir"]
         ELSE [spawns |-> <<Attempt("sh", "-c", entry.exec,
                               Some(WorkingDir(entry, env, Unwrap(env.cwd))),
                               env)>>,
               outcome |-> "Close"]

\* lines 37-88: handler on a selection.
Handle(selection, st, env) ==
    LET found == FindEntry(st.entries, Unwrap(selection.id))
    IN IF selection.id = None \/ found = None
       \* Option::unwrap() on None
       THEN [spawns |-> << >>, outcome |-> "panic_no_entry"]
       ELSE Dispatch(Unwrap(found), st.config, env)

\* The environments a dispatch can meet, told apart by what the branch taken
\* reads: the programs that can be spawned, the directories that exist and
\* the result of env::current_dir().
Environments(selection, st) ==
    LET found == FindEntry(st.entries, Unwrap(selection.id))
        progs == IF found = None THEN {}
                 ELSE IF ~Unwrap(found).term THEN {"sh"}
                 ELSE IF st.config.terminal # None THEN st.config.terminal
                 ELSE TerminalSet
    IN [spawnable : SUBSET progs,
        existing : IF found # None /\ ~Unwrap(found).term
                   THEN SUBSET Unwrap(found).path ELSE {{}},
        cwd : IF found # None /\ ~Unwrap(found).term
              THEN {None, Some(Cwd)} ELSE {Some(Cwd)}]

(* ---------------------------- state machine ---------------------------- *)
VARIABLES
    pc,        \* "boot", "ready", "closed" (handler returned), "aborted"
    cfgRead,   \* what reading applications.ron gives
    disk,      \* the entry-source locations, in priority order
    state,     \* Option<State>: the plugin state init returns
    last,      \* the latest get_matches call: its input and its result
    prevSame,  \* the result of the call before it, if of the same input
    selected,  \* the Match handed to handler
    env,       \* the environment handler ran in
    spawns,    \* the spawn attempts of handler, in order
    outcome    \* how handler ended

vars == <<pc, cfgRead, disk, state, last, prevSame, selected, env, spawns,
          outcome>>

RECURSIVE TotalFiles(_, _)
TotalFiles(locs, n) ==
    IF n = 0 THEN 0 ELSE Len(locs[n]) + TotalFiles(locs, n - 1)

\* The disks init may find: the scan fails as a whole, or every location
\* is read.
Disks ==
    {[ok |-> FALSE, locations |-> [i \in 1..NumSources |-> << >>]]}
    \cup {[ok |-> TRUE, locations |-> l] :
            l \in { v \in [1..NumSources -> Locations] :
                      TotalFiles(v, NumSources) <= MaxFiles }}

Init ==
    /\ pc = "boot"
    /\ cfgRead \in ConfigReads
    /\ disk \in Disks
    /\ state = None
    /\ last = None
    /\ prevSame = None
    /\ selected = None
    /\ env = None
    /\ spawns = << >>
    /\ outcome = "none"

\* lines 90-109
init ==
    /\ pc = "boot"
    /\ state' = Some([config |-> LoadConfig(cfgRead),
                      entries |-> UnwrapOr(scrubber(disk), << >>)])
    /\ pc' = "ready"
    /\ UNCHANGED <<cfgRead, disk, last, prevSame, selected, env, spawns,
                   outcome>>

\* lines 111-158
get_matches(input) ==
    /\ pc = "ready"
    /\ LET call == [input |-> input,
                    out |-> GetMatches(input, Unwrap(state).config,
                                       Unwrap(state).entries)]
       IN last' = Some(call)
    /\ prevSame' = IF last # None /\ Unwrap(last).input = input
                   THEN Some(Unwrap(last).out) ELSE None
    /\ UNCHANGED <<pc, cfgRead, disk, state, selected, env, spawns, outcome>>

\* lines 36-88: the host hands back one of the matches it was last given.
handler(selection) ==
    /\ pc = "ready"
    /\ \E e \in Environments(selection, Unwrap(state)) :
          LET r == Handle(selection, Unwrap(state), e)
          IN /\ env' = Some(e)
             /\ spawns' = r.spawns
             /\ outcome' = r.outcome
             /\ pc' = IF r.outcome = "Close" THEN "closed" ELSE "aborted"
    /\ selected' = Some(selection)
    /\ UNCHANGED <<cfgRead, disk, state, last, prevSame>>

Next ==
    \/ init
    \/ \E input \in Queries : get_matches(input)
    \/ \E i \in 1..(IF last = None THEN 0 ELSE Len(Unwrap(last).out)) :
          handler(Unwrap(last).out[i])

Spec == Init /\ [][Next]_vars

(* ------------------------ vocabulary of the claims ---------------------- *)
Ready == state # None
Config == Unwrap(state).config
Catalog == Unwrap(state).entries
\* A ranking call has returned and the host has not selected yet; handler
\* leaves the record of the call as it is.
Asked == pc = "ready" /\ last # None
Input == Unwrap(last).input
Out == Unwrap(last).out

\* m(field): the matcher's score, 0 when it reports no match.
M(field, input) ==
    LET r == fuzzy_match(field, input)
    IN IF r = None THEN 0 ELSE Unwrap(r)

RECURSIVE SumM(_, _, _)
SumM(keywords, n, input) ==
    IF n = 0 THEN 0 ELSE M(keywords[n], input) + SumM(keywords, n - 1, input)

FieldMatches(e, input) ==
    150 * M(e.name, input)
    + (IF e.desc = None THEN 0 ELSE 50 * M(Unwrap(e.desc), input))
    + 25 * M(e.exec, input)
    + SumM(e.keywords, Len(e.keywords), input)

\* The aggregate score as the ranking rule states it.
Aggregate(e, input) == FieldMatches(e, input) - e.offset

\* Catalog positions that carry the id of a returned match.
PosOf(m) == { k \in 1..Len(Catalog) : Some(Catalog[k].id) = m.id }
EntryOf(m) == Catalog[CHOOSE k \in PosOf(m) : TRUE].entry
Returned == { k \in 1..Len(Catalog) :
                \E i \in 1..Len(Out) : Out[i].id = Some(Catalog[k].id) }
Positive(input) == { k \in 1..Len(Catalog) :
                       Aggregate(Catalog[k].entry, input) > 0 }

\* C1: every entry in the result of get_matches has an aggregate score
\* strictly greater than 0; an entry whose aggregate is 0 or negative is
\* never returned, even when its field matches are positive.
C1_OnlyPositiveReturned ==
    Asked =>
       /\ \A i \in 1..Len(Out) :
             PosOf(Out[i]) # {} /\ Aggregate(EntryOf(Out[i]), Input) > 0
       /\ \A k \in 1..Len(Catalog) :
             Aggregate(Catalog[k].entry, Input) <= 0 => k \notin Returned

\* A call that returned something and left out an entry whose field matches
\* are positive but whose offset brings the aggregate down to 0.
C1_Witness ==
    /\ Asked
    /\ Out # << >>
    /\ \E k \in 1..Len(Catalog) :
          /\ FieldMatches(Catalog[k].entry, Input) > 0
          /\ Aggregate(Catalog[k].entry, Input) <= 0
          /\ k \notin Returned

\* C2: the result is ordered by non-increasing aggregate score, entries of
\* equal score keep their catalog order, and a call with the query of the
\* call before it returns the same sequence.
C2_SortedStableDeterministic ==
    Asked =>
       /\ \A i, j \in 1..Len(Out) : i < j =>
             /\ Aggregate(EntryOf(Out[i]), Input)
                   >= Aggregate(EntryOf(Out[j]), Input)
             /\ Aggregate(EntryOf(Out[i]), Input)
                   = Aggregate(EntryOf(Out[j]), Input)
                => \A a \in PosOf(Out[i]) : \A b \in PosOf(Out[j]) : a < b
       /\ prevSame # None => Unwrap(prevSame) = Out

\* A repeated query whose result holds two entries of equal score, the
\* one of higher id first in the catalog.
C2_Witness ==
    /\ Asked
    /\ prevSame # None
    /\ \E i, j \in 1..Len(Out) :
          /\ i < j
          /\ Aggregate(EntryOf(Out[i]), Input)
                = Aggregate(EntryOf(Out[j]), Input)
          /\ EntryOf(Out[i]).icon = "i2"

\* C3: the result never has more than max_entries matches, and no entry of
\* positive score left out of it scores strictly higher than an entry in it.
C3_CappedAfterSort ==
    Asked =>
       /\ Len(Out) <= Config.max_entries
       /\ \A k \in Positive(Input) \ Returned : \A r \in Returned :
             Aggregate(Catalog[k].entry, Input)
                <= Aggregate(Catalog[r].entry, Input)

\* A result cut to max_entries with a positive-score entry left out.
C3_Witness ==
    /\ Asked
    /\ Out # << >>
    /\ Len(Out) = Config.max_entries
    /\ Positive(Input) \ Returned # {}

\* C4: a query that starts with a non-empty ignore_prefix gets the empty
\* result whatever the catalog holds; with an empty ignore_prefix the
\* short-circuit never fires: the result holds the positive-score entries,
\* up to max_entries of them.
C4_IgnorePrefix ==
    Asked =>
       /\ (Config.ignore_prefix # << >> /\ StartsWith(Input, Config.ignore_prefix))
             => Out = << >>
       /\ Config.ignore_prefix = << >> =>
             Cardinality(Returned)
                = IF Cardinality(Positive(Input)) < Config.max_entries
                  THEN Cardinality(Positive(Input)) ELSE Config.max_entries

\* A prefixed query that would have matched an entry of the catalog.
C4_Witness ==
    /\ Asked
    /\ Config.ignore_prefix # << >>
    /\ StartsWith(Input, Config.ignore_prefix)
    /\ Config.max_entries > 0
    /\ Positive(Input) # {}
    /\ Out = << >>

(* ------------------------- claims about dispatch ----------------------- *)
Handled == selected # None
Selection == Unwrap(selected)
\* The catalog entry the host was shown for the selection.
Shown == EntryOf(Selection)
Environment == Unwrap(env)

\* C5: for a terminal entry with no terminal configured, handler tries
\* alacritty, foot, kitty, wezterm, wterm in this order, each at most once,
\* a candidate only after every earlier one failed, and none after the
\* first success; the terminal started is the first that can be spawned.
C5_FallbackFirstSuccess ==
    (Handled /\ Shown.term /\ Config.terminal = None) =>
       /\ spawns # << >>
       /\ Len(spawns) <= Len(SENSIBLE_TERMINALS)
       /\ \A i \in 1..Len(spawns) :
             /\ spawns[i].program = SENSIBLE_TERMINALS[i]
             /\ spawns[i].ok <=> spawns[i].program \in Environment.spawnable
             /\ i < Len(spawns) => ~spawns[i].ok
       /\ Len(spawns) < Len(SENSIBLE_TERMINALS) => spawns[Len(spawns)].ok
       /\ \A k \in 1..Len(SENSIBLE_TERMINALS) :
             (/\ SENSIBLE_TERMINALS[k] \in Environment.spawnable
              /\ \A j \in 1..(k - 1) :
                    SENSIBLE_TERMINALS[j] \notin Environment.spawnable)
             => Len(spawns) = k /\ spawns[k].ok

\* Only kitty can be spawned: it is started, after alacritty and foot.
C5_Witness ==
    /\ Handled
    /\ Shown.term
    /\ Config.terminal = None
    /\ Environment.spawnable = {"kitty"}
    /\ Len(spawns) = 3
    /\ spawns[3].program = "kitty"
    /\ spawns[3].ok

\* C6: for a selection whose id is in the catalog, handler returns Close
\* whatever the environment and whatever the spawns do.
C6_AlwaysClose ==
    (Handled /\ PosOf(Selection) # {}) => outcome = "Close"

\* C7: for an entry that needs no terminal, handler spawns sh -c <exec> in
\* entry.working_dir when that is set and exists, and else in the current
\* working directory of the dispatching process.
C7_ShellWorkingDir ==
    (/\ Handled
     /\ ~Shown.term
     /\ \/ Environment.cwd # None
        \/ Shown.path # None /\ Shown.path \subseteq Environment.existing) =>
       /\ Len(spawns) = 1
       /\ spawns[1].program = "sh"
       /\ spawns[1].flag = "-c"
       /\ spawns[1].command = Shown.exec
       /\ spawns[1].dir =
             IF Shown.path # None /\ Shown.path \subseteq Environment.existing
             THEN Shown.path ELSE Environment.cwd

\* C10: every match get_matches returns carries the id of a catalog entry,
\* no id twice in one result, under the title of that entry; handler finds
\* the entry of a returned match and what it spawns is the exec of the
\* entry whose title was shown.
C10_IdsResolve ==
    /\ last # None =>
          LET out == Unwrap(last).out
          IN \A i \in 1..Len(out) :
                /\ out[i].id # None
                /\ Cardinality(PosOf(out[i])) = 1
                /\ out[i].title = EntryOf(out[i]).name
                /\ \A j \in 1..Len(out) : out[j].id = out[i].id => j = i
    /\ Handled =>
          /\ outcome # "panic_no_entry"
          /\ \E i \in 1..Len(Unwrap(last).out) : Unwrap(last).out[i] = Selection
          /\ \A n \in 1..Len(spawns) :
                \E k \in PosOf(Selection) :
                   /\ Catalog[k].entry.name = Selection.title
                   /\ spawns[n].command = Catalog[k].entry.exec

\* The second entry of the catalog was returned, selected and its command
\* started.
C10_Witness ==
    /\ Handled
    /\ Len(Catalog) >= 2
    /\ \A k \in PosOf(Selection) : k >= 2
    /\ spawns # << >>
    /\ spawns[Len(spawns)].ok

(* ------------------------ claims about the catalog --------------------- *)
\* The places a candidate entry comes from: location i, file j.
Slots == { s \in (1..NumSources) \X (1..MaxFiles) :
             s[2] <= Len(disk.locations[s[1]]) }
CandidateAt(s) == WithOffset(Descriptor(disk.locations[s[1]][s[2]]), s[1] - 1)
ScannedBefore(a, b) == a[1] < b[1] \/ (a[1] = b[1] /\ a[2] < b[2])

\* C8: after catalog construction each deduplication identity is retained
\* at most once, and the retained entry is the first one seen in scan
\* order, the candidate of lowest offset; a later duplicate never replaces
\* it.
C8_FirstSeenWins ==
    (Ready /\ disk.ok) =>
       /\ \A i, j \in 1..Len(Catalog) :
             Identity(Catalog[i].entry) = Identity(Catalog[j].entry) => i = j
       /\ \A s \in Slots :
             \E k \in 1..Len(Catalog) :
                Identity(Catalog[k].entry) = Identity(CandidateAt(s))
       /\ \A k \in 1..Len(Catalog) :
             \E a \in Slots :
                /\ Catalog[k].entry = CandidateAt(a)
                /\ \A b \in Slots :
                      Identity(CandidateAt(b)) = Identity(CandidateAt(a))
                      => /\ ~ScannedBefore(b, a)
                         /\ CandidateAt(a).offset <= CandidateAt(b).offset

\* Two locations hold a descriptor of one identity and the catalog holds
\* one entry.
C8_Witness ==
    /\ Ready
    /\ disk.ok
    /\ Len(Catalog) = 1
    /\ \E a, b \in Slots :
          /\ a[1] < b[1]
          /\ Identity(CandidateAt(a)) = Identity(CandidateAt(b))

(* ------------------------ claims about the score ----------------------- *)
\* C9: the aggregate score get_matches computes for an entry and a query is
\* 150*m(name) + 50*m(description) + 25*m(exec) + the sum of m over the
\* keywords - offset, with m = 0 for a field that does not match and a
\* description term of 0 for an entry without description.
C9_ScoreFormula ==
    Asked =>
       \A k \in 1..Len(Catalog) :
          Score(Catalog[k].entry, Input) = Aggregate(Catalog[k].entry, Input)

\* A call that scored an entry whose name, description and exec match, and
\* an entry of a later location without description whose keyword does not
\* match.
C9_Witness ==
    /\ Asked
    /\ \E k \in 1..Len(Catalog) :
          LET e == Catalog[k].entry
          IN /\ e.desc # None
             /\ M(Unwrap(e.desc), Input) > 0
             /\ M(e.exec, Input) > 0
             /\ fuzzy_match(e.name, Input) # None
    /\ \E k \in 1..Len(Catalog) :
          LET e == Catalog[k].entry
          IN /\ e.desc = None
             /\ e.keywords # << >>
             /\ fuzzy_match(e.keywords[1], Input) = None
             /\ fuzzy_match(e.name, Input) # None
             /\ e.offset > 0

====
